---- MODULE Spec2Model ----
(***************************************************************************)
(* Model of masserstein/deconv_simplex.py: the chunked deconvolution       *)
(* drivers estimate_proportions and estimate_proportions2 (pre-filter,     *)
(* chunking, peak splitting, per-chunk solve with retries, scatter of the  *)
(* results), the resampling generator and the shape of the four LP         *)
(* builders.                                                               *)
(*                                                                         *)
(* Masses are integers.  Experimental intensities are integer multiples of *)
(* 1/scale.exp, so a spectrum is normalized when its intensities sum to    *)
(* scale.exp; theoretical intensities are multiples of 1/scale.thr.  The   *)
(* generated inputs use the denominators Units and ThrUnits.  The LP       *)
(* solver is an oracle: it returns a status and a value of LPValues per    *)
(* slot of the lists the builder extracts.                                 *)
(* The variable noise is the noise mode of a call of                       *)
(* estimate_proportions2, or Plain for a call of estimate_proportions.     *)
(* Python lists are sequences; indices stored in the state (sp_id,         *)
(* conf_id, chunk IDs) keep Python's 0-based values.                       *)
(***************************************************************************)
EXTENDS Integers, Sequences, FiniteSets, TLC

\* ---------------------------------------------------------------- bounds
MaxMass == 1
MaxPeaks == 2
MaxK == 2
Units == 2
MaxReruns == 2

ThrUnits == 3

VARIABLES exp_confs, query, MTD, MDC, MMD, max_reruns, noise, scale,
          pc, error, i, envelope_bounds, filtered, chunkIDs, chunk_bounds,
          current_chunk, first_present, prev_mn, prev_mx,
          exp_conf_chunks, matching_confs, vortex, proportions, chunk_TICs,
          current_chunk_ID, rerun, nsolves, dec, lp_calls, lp_consistent,
          result, warned, written

inputs == <<exp_confs, query, MTD, MDC, MMD, max_reruns, noise, scale>>
filterVars == <<envelope_bounds, filtered>>
chunkVars == <<chunkIDs, chunk_bounds, first_present, prev_mn, prev_mx>>
splitVars == <<exp_conf_chunks, matching_confs, chunk_TICs>>
solveVars == <<current_chunk_ID, rerun, nsolves, dec, lp_calls, lp_consistent, written>>
outVars == <<vortex, proportions, result, warned>>
vars == <<exp_confs, query, MTD, MDC, MMD, max_reruns, noise, scale,
          pc, error, i, envelope_bounds, filtered, chunkIDs, chunk_bounds,
          current_chunk, first_present, prev_mn, prev_mx,
          exp_conf_chunks, matching_confs, vortex, proportions, chunk_TICs,
          current_chunk_ID, rerun, nsolves, dec, lp_calls, lp_consistent,
          result, warned, written>>

\* ---------------------------------------------------------------- helpers
None == [proportions |-> <<>>, noise |-> <<>>, returned |-> FALSE]

NoDec == [status |-> 0, probs |-> <<>>, trash |-> <<>>]

Abs(x) == IF x < 0 THEN -x ELSE x

RECURSIVE SumSeq(_)
SumSeq(s) == IF s = <<>> THEN 0 ELSE s[1] + SumSeq(Tail(s))

Masses(confs) == [j \in 1..Len(confs) |-> confs[j][1]]

Intensities(confs) == [j \in 1..Len(confs) |-> confs[j][2]]

Zeros(n) == [j \in 1..n |-> 0]

\* misc.extract_range: the peaks with mass in [lo, hi]
ExtractRange(confs, lo, hi) ==
    SelectSeq(confs, LAMBDA c : lo <= c[1] /\ c[1] <= hi)

\* misc.closest: a peak at the least distance from mz
Closest(confs, mz) ==
    LET best == CHOOSE j \in 1..Len(confs) :
                    \A l \in 1..Len(confs) :
                        Abs(confs[j][1] - mz) <= Abs(confs[l][1] - mz)
    IN confs[best]

\* Spectrum.get_modal_peak: the first peak of highest intensity
GetModalPeak(confs) ==
    LET best == CHOOSE j \in 1..Len(confs) :
                    /\ \A l \in 1..Len(confs) : confs[l][2] <= confs[j][2]
                    /\ \A l \in 1..(j-1) : confs[l][2] < confs[j][2]
    IN confs[best]

\* list.sort(key=lambda x: x[0]): stable, ascending in the first component
RECURSIVE InsertByLower(_, _)
InsertByLower(x, s) ==
    IF s = <<>> THEN <<x>>
    ELSE IF s[Len(s)][1] <= x[1] THEN Append(s, x)
    ELSE Append(InsertByLower(x, SubSeq(s, 1, Len(s) - 1)), s[Len(s)])

RECURSIVE SortByLower(_)
SortByLower(s) ==
    IF s = <<>> THEN <<>>
    ELSE InsertByLower(s[Len(s)], SortByLower(SubSeq(s, 1, Len(s) - 1)))

\* sorted(set): the ascending sequence of the members of a set of masses
RECURSIVE Sorted(_)
Sorted(S) ==
    IF S = {} THEN <<>>
    ELSE LET m == CHOOSE x \in S : \A y \in S : x <= y
         IN <<m>> \o Sorted(S \ {m})

\* the generator's loop over confs: st = [id, out, done], where id is
\* mzaxis_id, out the values yielded so far, done the generator has returned
RECURSIVE PadBelow(_, _, _)
PadBelow(st, mz, mzaxis) ==
    IF ~st.done /\ mzaxis[st.id + 1] < mz
    THEN PadBelow([id |-> st.id + 1, out |-> Append(st.out, 0),
                   done |-> st.id + 1 = Len(mzaxis)], mz, mzaxis)
    ELSE st

RECURSIVE GeneratorLoopNoPad(_, _, _)
GeneratorLoopNoPad(st, confs, mzaxis) ==
    IF confs = <<>> \/ st.done THEN st
    ELSE LET mz == confs[1][1]
             intsy == confs[1][2]
         IN IF mzaxis[st.id + 1] = mz
            THEN GeneratorLoopNoPad([id |-> st.id + 1, out |-> Append(st.out, intsy),
                                     done |-> st.id + 1 = Len(mzaxis)],
                                    Tail(confs), mzaxis)
            ELSE GeneratorLoopNoPad(st, Tail(confs), mzaxis)

RECURSIVE GeneratorLoop(_, _, _)
GeneratorLoop(st, confs, mzaxis) ==
    IF confs = <<>> \/ st.done THEN st
    ELSE LET mz == confs[1][1]
             intsy == confs[1][2]
             p == PadBelow(st, mz, mzaxis)
         IN IF p.done THEN p
            ELSE IF mzaxis[p.id + 1] = mz
            THEN GeneratorLoop([id |-> p.id + 1, out |-> Append(p.out, intsy),
                                done |-> p.id + 1 = Len(mzaxis)],
                               Tail(confs), mzaxis)
            ELSE GeneratorLoop(p, Tail(confs), mzaxis)

\* list(intensity_generator(confs, mzaxis)) for a non-empty mzaxis
intensity_generator(confs, mzaxis) ==
    LET st == GeneratorLoop([id |-> 0, out |-> <<>>, done |-> FALSE], confs, mzaxis)
    IN IF st.done THEN st.out
       ELSE st.out \o [j \in 1..(Len(mzaxis) - st.id) |-> 0]

\* ---------------------------------------------------------------- inputs
Ascending(confs) ==
    \A j \in 1..(Len(confs) - 1) : confs[j][1] < confs[j+1][1]

ExpSpectra ==
    UNION { { s \in [1..n -> (0..MaxMass) \X (0..Units)] :
                Ascending(s) /\ SumSeq(Intensities(s)) = Units }
            : n \in 1..MaxPeaks }

SinglePeakExp == { << <<m, Units>> >> : m \in 0..MaxMass }

SinglePeakThr == { << <<m, ThrUnits>> >> : m \in 0..MaxMass }

ThrSpectra ==
    { << <<m, ThrUnits>> >> : m \in 0..MaxMass }
    \cup { s \in { << <<m1, 1>>, <<m2, ThrUnits - 1>> >> :
                     m1 \in 0..MaxMass, m2 \in 0..MaxMass } : Ascending(s) }

QueriesOf(S) == UNION { [1..n -> S] : n \in 0..MaxK }

\* sampled parameter values: MTD, MDC (0 disables), MMD (-1 disables), and
\* the values the solver reports per slot
MTDValues == {0, 1}

MDCValues == {0, 1}

MMDValues == {-1, 0}

LPValues == {0, 1}

\* estimate_proportions has no noise parameter
Plain == "estimate_proportions"

InBoth == {"in_both_alg1", "in_both_alg2"}

NoiseModes == {"only_in_exp"} \cup InBoth

InvalidExp ==
    { << <<0, Units + 1>> >>, << <<-1, Units>> >>,
      << <<0, -1>>, <<1, Units + 1>> >> }

InvalidThr ==
    { << <<0, ThrUnits + 1>> >>, << <<-1, ThrUnits>> >>,
      << <<0, -1>>, <<1, ThrUnits + 1>> >> }

\* ---------------------------------------------------------------- Init
StartScaled(e, q, mtd, mdc, mmd, mr, nm, sc) ==
    /\ exp_confs = e /\ query = q /\ scale = sc
    /\ MTD = mtd /\ MDC = mdc /\ MMD = mmd /\ max_reruns = mr /\ noise = nm
    /\ pc = "validate" /\ error = "none" /\ i = 0
    /\ envelope_bounds = <<>> /\ filtered = <<>>
    /\ chunkIDs = <<>> /\ chunk_bounds = <<>>
    /\ current_chunk = 0 /\ first_present = 0
    /\ prev_mn = 0 /\ prev_mx = 0
    /\ exp_conf_chunks = <<>> /\ matching_confs = <<>>
    /\ vortex = <<>> /\ proportions = <<>> /\ chunk_TICs = <<>>
    /\ current_chunk_ID = 0 /\ rerun = 0 /\ nsolves = 0
    /\ dec = NoDec /\ lp_calls = {} /\ lp_consistent = TRUE
    /\ result = None /\ warned = FALSE /\ written = {}

Start(e, q, mtd, mdc, mmd, mr, nm) ==
    StartScaled(e, q, mtd, mdc, mmd, mr, nm, [exp |-> Units, thr |-> ThrUnits])

\* the run of the entry point: masses in tenths, experimental intensities in
\* 1/132 (the list sums to 1.1 and is normalized), theoretical ones in 1/4;
\* MTD = 0.2, MMD = 0.21 (distances are whole tenths), MDC = 1e-8 (the least
\* positive intensity), max_reruns = 3
ScenarioExp == << <<0, 30>>, <<11, 20>>, <<22, 25>>, <<31, 15>>, <<40, 30>>, <<600, 12>> >>

ScenarioThr ==
    << << <<1, 2>>, <<10, 2>> >>, << <<30, 1>>, <<42, 3>> >>,
       << <<5, 1>>, <<12, 3>> >>, << <<200, 4>> >> >>

Scenario ==
    StartScaled(ScenarioExp, ScenarioThr, 2, 1, 2, 3, Plain, [exp |-> 132, thr |-> 4])

\* Inputs come in five families: many candidate envelopes against a
\* one-peak spectrum, every filter setting, a single solve attempt; many
\* spectra (several peaks, zero intensities) against one-peak candidates,
\* filter disabled, every retry limit; many spectra against a single
\* candidate with every filter setting; the inputs validation rejects; and
\* calls of estimate_proportions2 in every noise mode, many spectra against
\* a single candidate, filter disabled.  The last disjunct is the run of
\* the entry point.
Init ==
    \/ \E e \in SinglePeakExp, q \in QueriesOf(ThrSpectra), mtd \in MTDValues,
          mdc \in MDCValues, mmd \in MMDValues :
          Start(e, q, mtd, mdc, mmd, 1, Plain)
    \/ \E e \in ExpSpectra, q \in QueriesOf(SinglePeakThr), mtd \in MTDValues,
          mr \in 0..MaxReruns :
          Start(e, q, mtd, 0, -1, mr, Plain)
    \/ \E e \in ExpSpectra, t \in ThrSpectra, mtd \in MTDValues,
          mdc \in MDCValues, mmd \in MMDValues :
          Start(e, <<t>>, mtd, mdc, mmd, 1, Plain)
    \/ \E e \in InvalidExp :
          Start(e, << << <<0, ThrUnits>> >> >>, 1, 0, -1, 1, Plain)
    \/ \E t \in InvalidThr :
          Start(<< <<0, Units>> >>, << << <<0, ThrUnits>> >>, t >>, 1, 0, -1, 1, Plain)
    \/ \E e \in ExpSpectra, t \in ThrSpectra, mtd \in MTDValues, nm \in NoiseModes :
          Start(e, <<t>>, mtd, 0, -1, 1, nm)
    \/ Scenario

\* ---------------------------------------------------------------- validation
ExpNormalized == SumSeq(Intensities(exp_confs)) = scale.exp

ExpMassesOK == \A j \in 1..Len(exp_confs) : exp_confs[j][1] >= 0

ExpNegativeIntensity == \E j \in 1..Len(exp_confs) : exp_confs[j][2] < 0

ThrNormalized(q) == SumSeq(Intensities(q)) = scale.thr

ThrMassesOK(q) == \A j \in 1..Len(q) : q[j][1] >= 0

QueryOK == \A n \in 1..Len(query) : ThrNormalized(query[n]) /\ ThrMassesOK(query[n])

ValidationError ==
    IF ~ExpNormalized THEN "AssertionError"
    ELSE IF ~ExpMassesOK THEN "AssertionError"
    ELSE IF ExpNegativeIntensity THEN "ValueError"
    ELSE IF ~QueryOK THEN "AssertionError"
    ELSE "none"

Validate ==
    /\ pc = "validate"
    /\ ValidationError = "none"
    /\ vortex' = Zeros(Len(exp_confs))
    /\ proportions' = Zeros(Len(query))
    /\ pc' = "filter"
    /\ i' = 0
    /\ UNCHANGED <<inputs, error, filterVars, chunkVars, current_chunk,
                   splitVars, solveVars, result, warned>>

Reject ==
    /\ pc = "validate"
    /\ ValidationError # "none"
    /\ error' = ValidationError
    /\ pc' = "raised"
    /\ UNCHANGED <<inputs, i, filterVars, chunkVars, current_chunk,
                   splitVars, solveVars, outVars>>

\* ---------------------------------------------------------------- pre-filter
MatchingCurrent(s) ==
    \/ MDC = 0
    \/ SumSeq(Intensities(ExtractRange(exp_confs, s[1][1] - MTD,
                                       s[Len(s)][1] + MTD))) >= MDC

MatchingMode(s) ==
    \/ MMD = -1
    \/ Abs(Closest(exp_confs, GetModalPeak(s)[1])[1] - GetModalPeak(s)[1]) <= MMD

RetainedAlt(mm, mc) == mm \/ mc

Retained(mm, mc) == mm /\ mc

FilterStep ==
    /\ pc = "filter"
    /\ i < Len(query)
    /\ LET s == query[i + 1]
       IN IF Retained(MatchingMode(s), MatchingCurrent(s))
          THEN /\ envelope_bounds' =
                      Append(envelope_bounds, <<s[1][1], s[Len(s)][1], i>>)
               /\ filtered' = filtered
          ELSE /\ envelope_bounds' = Append(envelope_bounds, <<-1, -1, i>>)
               /\ filtered' = Append(filtered, i)
    /\ i' = i + 1
    /\ UNCHANGED <<inputs, pc, error, chunkVars, current_chunk, splitVars,
                   solveVars, outVars>>

SortEnvelopes ==
    /\ pc = "filter"
    /\ i = Len(query)
    /\ envelope_bounds' = SortByLower(envelope_bounds)
    /\ chunkIDs' = Zeros(Len(query))
    /\ chunk_bounds' = <<>>
    /\ current_chunk' = 0
    /\ first_present' = 0
    /\ pc' = "skip"
    /\ UNCHANGED <<inputs, error, i, filtered, prev_mn, prev_mx, splitVars,
                   solveVars, outVars>>

\* ---------------------------------------------------------------- chunking
IndexErrorOnEmptyQuery ==
    /\ pc = "skip"
    /\ Len(envelope_bounds) = 0
    /\ error' = "IndexError"
    /\ pc' = "raised"
    /\ UNCHANGED <<inputs, i, filterVars, chunkVars, current_chunk,
                   splitVars, solveVars, outVars>>

SkipConditionNever == FALSE

SkipCondition ==
    /\ envelope_bounds[first_present + 1][1] = -1
    /\ first_present < Len(query) - 1

SkipFiltered ==
    /\ pc = "skip"
    /\ Len(envelope_bounds) > 0
    /\ SkipCondition
    /\ chunkIDs' = [chunkIDs EXCEPT ![envelope_bounds[first_present + 1][3] + 1] = -1]
    /\ first_present' = first_present + 1
    /\ UNCHANGED <<inputs, pc, error, i, filterVars, chunk_bounds, prev_mn,
                   prev_mx, current_chunk, splitVars, solveVars, outVars>>

FirstPresent ==
    /\ pc = "skip"
    /\ Len(envelope_bounds) > 0
    /\ ~SkipCondition
    /\ prev_mn' = envelope_bounds[first_present + 1][1]
    /\ prev_mx' = envelope_bounds[first_present + 1][2]
    /\ i' = first_present
    /\ pc' = "chunk"
    /\ UNCHANGED <<inputs, error, filterVars, chunkIDs, chunk_bounds,
                   first_present, current_chunk, splitVars, solveVars, outVars>>

NewChunkFromLower(mn, pmx) == mn - prev_mn > 2 * MTD

NewChunkNotStrict(mn, pmx) == mn - pmx >= 2 * MTD

NewChunk(mn, pmx) == mn - pmx > 2 * MTD

ChunkStep ==
    /\ pc = "chunk"
    /\ i < Len(query)
    /\ LET mn == envelope_bounds[i + 1][1]
           mx == envelope_bounds[i + 1][2]
           sp_id == envelope_bounds[i + 1][3]
           opened == NewChunk(mn, prev_mx)
           cc == IF opened THEN current_chunk + 1 ELSE current_chunk
       IN /\ current_chunk' = cc
          /\ chunk_bounds' = IF opened
                             THEN Append(chunk_bounds, <<prev_mn - MTD, prev_mx + MTD>>)
                             ELSE chunk_bounds
          /\ prev_mn' = IF opened THEN mn ELSE prev_mn
          /\ prev_mx' = mx
          /\ chunkIDs' = [chunkIDs EXCEPT ![sp_id + 1] = cc]
    /\ i' = i + 1
    /\ UNCHANGED <<inputs, pc, error, filterVars, first_present, splitVars,
                   solveVars, outVars>>

FinishChunks ==
    /\ pc = "chunk"
    /\ i = Len(query)
    /\ chunk_bounds' = Append(chunk_bounds, <<prev_mn - MTD, prev_mx + MTD>>)
    /\ exp_conf_chunks' = <<>>
    /\ current_chunk' = 0
    /\ matching_confs' = <<>>
    /\ i' = 0
    /\ pc' = "split"
    /\ UNCHANGED <<inputs, error, filterVars, chunkIDs, first_present, prev_mn,
                   prev_mx, chunk_TICs, solveVars, outVars>>

\* ---------------------------------------------------------------- peak splitting
\* the inner while loop of the sweep, for a peak of the given mass:
\* st = [cc, chunks, matching]
RECURSIVE AdvanceKeep(_, _)
AdvanceKeep(st, mass) ==
    IF chunk_bounds[st.cc + 1][2] < mass /\ st.cc < Len(chunk_bounds) - 1
    THEN AdvanceKeep([cc |-> st.cc + 1,
                      chunks |-> Append(st.chunks, st.matching),
                      matching |-> st.matching], mass)
    ELSE st

RECURSIVE Advance(_, _)
Advance(st, mass) ==
    IF chunk_bounds[st.cc + 1][2] < mass /\ st.cc < Len(chunk_bounds) - 1
    THEN Advance([cc |-> st.cc + 1,
                  chunks |-> Append(st.chunks, st.matching),
                  matching |-> <<>>], mass)
    ELSE st

InBound(bound, mass) == bound[1] <= mass /\ mass <= bound[2]

OutsideNoiseZero(cur_conf) == 0

\* vortex[conf_id] = cur_conf[1]
OutsideNoise(cur_conf) == cur_conf[2]

SplitStep ==
    /\ pc = "split"
    /\ i < Len(exp_confs)
    /\ LET cur_conf == exp_confs[i + 1]
           st == Advance([cc |-> current_chunk, chunks |-> exp_conf_chunks,
                          matching |-> matching_confs], cur_conf[1])
       IN /\ current_chunk' = st.cc
          /\ exp_conf_chunks' = st.chunks
          /\ IF InBound(chunk_bounds[st.cc + 1], cur_conf[1])
             THEN /\ matching_confs' = Append(st.matching, i)
                  /\ vortex' = vortex
             ELSE /\ matching_confs' = st.matching
                  /\ vortex' = [vortex EXCEPT ![i + 1] = OutsideNoise(cur_conf)]
    /\ i' = i + 1
    /\ UNCHANGED <<inputs, pc, error, filterVars, chunkVars, chunk_TICs,
                   solveVars, proportions, result, warned>>

ChunkTIC(chunk_list) == SumSeq([j \in 1..Len(chunk_list) |-> exp_confs[chunk_list[j] + 1][2]])

FinishSplit ==
    /\ pc = "split"
    /\ i = Len(exp_confs)
    /\ exp_conf_chunks' = Append(exp_conf_chunks, matching_confs)
    /\ chunk_TICs' = [c \in 1..(Len(exp_conf_chunks) + 1) |->
                        ChunkTIC(Append(exp_conf_chunks, matching_confs)[c])]
    /\ current_chunk_ID' = 0
    /\ pc' = "deconv"
    /\ UNCHANGED <<inputs, error, i, filterVars, chunkVars, current_chunk,
                   matching_confs, rerun, nsolves, dec, lp_calls, written, lp_consistent,
                   outVars>>

\* ---------------------------------------------------------------- deconvolving chunks
Optimal == 1

NonOptimal == {-3, -2, -1, 0}

BelowFloorNegative(tic) == tic < 0

\* chunk_TICs[c] < 1e-16; intensities are whole multiples of 1/Units
BelowFloor(tic) == tic < 1

TheoreticalSpectraIDsUpTo(chunk_id) ==
    SelectSeq([j \in 1..Len(chunkIDs) |-> j - 1],
              LAMBDA n : chunkIDs[n + 1] >= 0 /\ chunkIDs[n + 1] <= chunk_id)

TheoreticalSpectraIDs(chunk_id) ==
    SelectSeq([j \in 1..Len(chunkIDs) |-> j - 1],
              LAMBDA n : chunkIDs[n + 1] = chunk_id)

ConfIDs == exp_conf_chunks[current_chunk_ID + 1]

LPResults(nthr, ntrash) ==
    { [status |-> Optimal, probs |-> p, trash |-> t] :
        p \in [1..nthr -> LPValues], t \in [1..ntrash -> LPValues] }

\* the LP builder a solve attempt calls
Builder ==
    CASE noise = Plain -> "dualdeconv2"
      [] noise = "only_in_exp" -> "dualdeconv2_alternative"
      [] noise = "in_both_alg1" -> "dualdeconv3"
      [] noise = "in_both_alg2" -> "dualdeconv4"

\* chunkSp: the peaks of the chunk; normalize() divides the intensities by
\* the chunk's ion current, here they stay in units of 1/Units
ChunkSp(conf_IDs) == [j \in 1..Len(conf_IDs) |-> exp_confs[conf_IDs[j] + 1]]

ThrSp(ids) == [j \in 1..Len(ids) |-> query[ids[j] + 1]]

GlobalMassAxis(exp, thrs) ==
    Sorted({exp[j][1] : j \in 1..Len(exp)}
           \cup UNION { {thrs[t][j][1] : j \in 1..Len(thrs[t])} : t \in 1..Len(thrs) })

\* zip(vec, lpVars) in dualdeconv2 and dualdeconv2_alternative,
\* zip(vec, lpVars[:n-1]+[0]) in dualdeconv3 and dualdeconv4: the number of
\* the variable Z paired with axis point j, or 0 for the constant 0
PairedVar(builder, n, j) ==
    IF builder \in {"dualdeconv2", "dualdeconv2_alternative"} THEN j
    ELSE IF j < n THEN j ELSE 0

\* len(lpVars)
NumVars(builder, n) ==
    IF builder \in {"dualdeconv2", "dualdeconv2_alternative"} THEN n ELSE n + 2

\* the terms v*x of the objective that come from the axis: <<v, number of Z>>
Objective(builder, vec) ==
    [j \in 1..Len(vec) |-> <<vec[j], PairedVar(builder, Len(vec), j)>>]

\* the terms v*x of a candidate constraint: only those with v > 0
CandidateConstraint(builder, vec) ==
    SelectSeq(Objective(builder, vec), LAMBDA t : t[1] > 0)

\* the names of a loop that adds one constraint per pass: name % (i+1)
Named(name, m) == [l \in 1..m |-> <<name, l>>]

\* the names of a loop that adds two constraints per pass, first % (i+1) and
\* then second % (i+1)
NamedPairs(first, second, m) ==
    [l \in 1..(2 * m) |->
        IF l % 2 = 1 THEN <<first, (l + 1) \div 2>> ELSE <<second, l \div 2>>]

TrailingIndexOfLoop(n) == n - 1

\* dualdeconv4: 'g_%i' % (n) and 'g_prime_%i' % (n) after the loops
TrailingIndex(n) == n

\* the names under which the builder adds its constraints to the program,
\* in the order of the additions; a name is <<format, number>>
ConstraintNames(builder, n, k) ==
    CASE builder = "dualdeconv2" ->
            Named("P%i", k) \o NamedPairs("EpsPlus_%i", "EpsMinus_%i", n - 1)
      [] builder = "dualdeconv2_alternative" ->
            Named("P%i", k) \o Named("g%i", n)
                \o NamedPairs("EpsPlus_%i", "EpsMinus_%i", n - 1)
      [] builder = "dualdeconv3" ->
            Named("P_%i", k) \o << <<"p0_prime", 0>> >>
                \o NamedPairs("g_%i", "g_prime_%i", n - 1)
                \o NamedPairs("epsilon_plus_%i", "epsilon_minus_%i", n - 2)
      [] builder = "dualdeconv4" ->
            Named("P_%i", k) \o << <<"p0_prime", 0>> >>
                \o NamedPairs("g_%i", "g_prime_%i", n - 1)
                \o NamedPairs("epsilon_plus_%i", "epsilon_minus_%i", n - 2)
                \o << <<"g_%i", TrailingIndex(n)>>, <<"g_prime_%i", TrailingIndex(n)>> >>

\* the length of the abyss list each builder returns
AbyssLen(builder, exp_vec) ==
    IF builder = "dualdeconv2"
    THEN Cardinality({j \in 1..Len(exp_vec) : exp_vec[j] > 0})
    ELSE Len(exp_vec)

\* dualdeconv2_alternative: one abyss value per constraint g1..gn
AltResults(nthr, n) ==
    { [status |-> Optimal, probs |-> p, trash |-> t] :
        p \in [1..nthr -> LPValues], t \in [1..n -> LPValues] }

LastSlotWithoutProbs(probs, abyss) == 1 - SumSeq(abyss)

\* dualdeconv3: abyss.append(1-sum(probs)-sum(abyss)), in units of the total
LastSlot(probs, abyss) == 1 - SumSeq(probs) - SumSeq(abyss)

\* dualdeconv3: g_1..g_(n-1) and the computed last slot; the theoretical
\* abyss likewise, its last slot p0_prime minus the others
Deconv3Results(nthr, n) ==
    { [status |-> Optimal, probs |-> p, noise_in_theoretical |-> p0,
       experimental_trash |-> Append(t, LastSlot(p, t)),
       theoretical_trash |-> Append([j \in 1..(n - 1) |-> v], p0 - (n - 1) * v)] :
        p \in [1..nthr -> LPValues], t \in [1..(n - 1) -> LPValues],
        p0 \in LPValues, v \in LPValues }

\* dualdeconv4: g_1..g_n and g_prime_1..g_prime_n
Deconv4Results(nthr, n) ==
    { [status |-> Optimal, probs |-> p, noise_in_theoretical |-> p0,
       experimental_trash |-> t, theoretical_trash |-> [j \in 1..n |-> v]] :
        p \in [1..nthr -> LPValues], t \in [1..n -> LPValues],
        p0 \in LPValues, v \in LPValues }

\* the list the builder checks against 1 and returns as its noise
Abyss(d) == IF "trash" \in DOMAIN d THEN d.trash ELSE d.experimental_trash

\* np.isclose(sum(probs) + sum(abyss), 1., atol=len(abyss)*1e-03)
DecSumsToOne(d) == SumSeq(d.probs) + SumSeq(Abyss(d)) = 1

SkipChunk ==
    /\ pc = "deconv"
    /\ current_chunk_ID < Len(exp_conf_chunks)
    /\ BelowFloor(chunk_TICs[current_chunk_ID + 1])
    /\ vortex' = [n \in 1..Len(vortex) |->
                    IF \E j \in 1..Len(ConfIDs) : ConfIDs[j] + 1 = n
                    THEN exp_confs[n][2] ELSE vortex[n]]
    /\ written' = written \cup
          { [chunk |-> current_chunk_ID, array |-> "noise", index |-> ConfIDs[j],
             value |-> exp_confs[ConfIDs[j] + 1][2]] : j \in 1..Len(ConfIDs) }
    /\ current_chunk_ID' = current_chunk_ID + 1
    /\ UNCHANGED <<inputs, pc, error, i, filterVars, chunkVars, current_chunk,
                   splitVars, rerun, nsolves, dec, lp_calls, lp_consistent,
                   proportions, result, warned>>

PrepareChunk ==
    /\ pc = "deconv"
    /\ current_chunk_ID < Len(exp_conf_chunks)
    /\ ~BelowFloor(chunk_TICs[current_chunk_ID + 1])
    /\ rerun' = 0
    /\ nsolves' = 0
    /\ pc' = "solve"
    /\ UNCHANGED <<inputs, error, i, filterVars, chunkVars, current_chunk,
                   splitVars, current_chunk_ID, dec, lp_calls, written, lp_consistent,
                   outVars>>

RerunExceededLate(r) == r > max_reruns + 1

\* if rerun > max_reruns: raise RuntimeError
RerunExceeded(r) == r > max_reruns

ExhaustedPcSwallowed == "deconv"

ExhaustedPc == "raised"

Exhausted ==
    /\ pc = "solve"
    /\ RerunExceeded(rerun + 1)
    /\ rerun' = rerun + 1
    /\ error' = "RuntimeError"
    /\ pc' = ExhaustedPc
    /\ UNCHANGED <<inputs, i, filterVars, chunkVars, current_chunk, splitVars,
                   current_chunk_ID, nsolves, dec, lp_calls, written, lp_consistent, outVars>>

\* one call of the builder: its arguments, the axis and the resampled
\* vectors the builder computes from them, and the program it builds (the
\* number of variables, the axis terms of the objective and of each
\* candidate constraint, the names of all its constraints)
LPCall ==
    LET ids == TheoreticalSpectraIDs(current_chunk_ID)
        axis == GlobalMassAxis(ChunkSp(ConfIDs), ThrSp(ids))
    IN [chunk |-> current_chunk_ID,
        thr |-> ids,
        confs |-> ConfIDs,
        builder |-> Builder,
        axis |-> axis,
        exp_vec |-> intensity_generator(ChunkSp(ConfIDs), axis),
        thr_vecs |-> [t \in 1..Len(ids) |-> intensity_generator(query[ids[t] + 1], axis)],
        nvars |-> NumVars(Builder, Len(axis)),
        objective |-> Objective(Builder, intensity_generator(ChunkSp(ConfIDs), axis)),
        constraints |-> [t \in 1..Len(ids) |->
            CandidateConstraint(Builder, intensity_generator(query[ids[t] + 1], axis))],
        names |-> ConstraintNames(Builder, Len(axis), Len(ids))]

\* the results the builder of the call can return with optimal status
DecResults(call) ==
    LET nthr == Len(call.thr)
        n == Len(call.axis)
    IN CASE call.builder = "dualdeconv2" ->
                LPResults(nthr, AbyssLen(call.builder, call.exp_vec))
         [] call.builder = "dualdeconv2_alternative" -> AltResults(nthr, n)
         [] call.builder = "dualdeconv3" -> Deconv3Results(nthr, n)
         [] call.builder = "dualdeconv4" -> Deconv4Results(nthr, n)

\* dualdeconv3, dualdeconv4: interval_lengths[n-2] with an axis of one point
AxisTooShort ==
    /\ noise \in InBoth
    /\ Len(GlobalMassAxis(ChunkSp(ConfIDs),
                          ThrSp(TheoreticalSpectraIDs(current_chunk_ID)))) < 2

SolveIndexError ==
    /\ pc = "solve"
    /\ ~RerunExceeded(rerun + 1)
    /\ AxisTooShort
    /\ rerun' = rerun + 1
    /\ error' = "IndexError"
    /\ pc' = "raised"
    /\ UNCHANGED <<inputs, i, filterVars, chunkVars, current_chunk, splitVars,
                   current_chunk_ID, nsolves, dec, lp_calls, written, lp_consistent, outVars>>

SolveNonOptimal ==
    /\ pc = "solve"
    /\ ~RerunExceeded(rerun + 1)
    /\ ~AxisTooShort
    /\ rerun' = rerun + 1
    /\ nsolves' = nsolves + 1
    /\ lp_calls' = lp_calls \cup {LPCall}
    /\ \E st \in NonOptimal : dec' = [status |-> st, probs |-> <<>>, trash |-> <<>>]
    /\ UNCHANGED <<inputs, pc, error, i, filterVars, chunkVars, current_chunk,
                   splitVars, current_chunk_ID, lp_consistent, written, outVars>>

SolveOptimal ==
    /\ pc = "solve"
    /\ ~RerunExceeded(rerun + 1)
    /\ ~AxisTooShort
    /\ rerun' = rerun + 1
    /\ nsolves' = nsolves + 1
    /\ lp_calls' = lp_calls \cup {LPCall}
    /\ \E d \in DecResults(LPCall) :
          /\ dec' = d
          /\ lp_consistent' = (lp_consistent /\ DecSumsToOne(d))
    /\ pc' = "scatter"
    /\ UNCHANGED <<inputs, error, i, filterVars, chunkVars, current_chunk,
                   splitVars, current_chunk_ID, written, outVars>>

ScaleByTICDropped(p, tic) == p

ScaleByTIC(p, tic) == p * tic

\* for i, p in enumerate(values): target[ids[i]] = p * tic
RECURSIVE ScatterInto(_, _, _, _)
ScatterInto(target, ids, values, tic) ==
    IF values = <<>> THEN target
    ELSE ScatterInto([target EXCEPT ![ids[1] + 1] = ScaleByTIC(values[1], tic)],
                     Tail(ids), Tail(values), tic)

\* the writes of chunk chunk_id into the array of the given name: one record
\* per pair of ids[j] and values[j]
Writes(chunk_id, array, ids, values, tic) ==
    { [chunk |-> chunk_id, array |-> array, index |-> ids[j],
       value |-> ScaleByTIC(values[j], tic)] : j \in 1..Len(values) }

\* the theoretical spectra of the chunk being processed
ThrIDs == TheoreticalSpectraIDs(current_chunk_ID)

CurrentTIC == chunk_TICs[current_chunk_ID + 1]

\* dec['trash'] exists and conf_IDs[i] exists for every i
TrashFits == "trash" \in DOMAIN dec /\ Len(dec.trash) <= Len(ConfIDs)

\* dec['trash'] of a result without that key, after the proportions are written
ScatterKeyError ==
    /\ pc = "scatter"
    /\ "trash" \notin DOMAIN dec
    /\ proportions' = ScatterInto(proportions, ThrIDs, dec.probs, CurrentTIC)
    /\ written' = written \cup
          Writes(current_chunk_ID, "proportions", ThrIDs, dec.probs, CurrentTIC)
    /\ error' = "KeyError"
    /\ pc' = "raised"
    /\ UNCHANGED <<inputs, i, filterVars, chunkVars, current_chunk, splitVars,
                   current_chunk_ID, rerun, nsolves, dec, lp_calls, lp_consistent,
                   vortex, result, warned>>

\* conf_IDs[i] past the end of conf_IDs, after the values before it are written
ScatterIndexError ==
    /\ pc = "scatter"
    /\ "trash" \in DOMAIN dec
    /\ Len(dec.trash) > Len(ConfIDs)
    /\ proportions' = ScatterInto(proportions, ThrIDs, dec.probs, CurrentTIC)
    /\ vortex' = ScatterInto(vortex, ConfIDs, SubSeq(dec.trash, 1, Len(ConfIDs)),
                             CurrentTIC)
    /\ written' = written
          \cup Writes(current_chunk_ID, "proportions", ThrIDs, dec.probs, CurrentTIC)
          \cup Writes(current_chunk_ID, "noise", ConfIDs,
                      SubSeq(dec.trash, 1, Len(ConfIDs)), CurrentTIC)
    /\ error' = "IndexError"
    /\ pc' = "raised"
    /\ UNCHANGED <<inputs, i, filterVars, chunkVars, current_chunk, splitVars,
                   current_chunk_ID, rerun, nsolves, dec, lp_calls, lp_consistent,
                   result, warned>>

Scatter ==
    /\ pc = "scatter"
    /\ TrashFits
    /\ proportions' = ScatterInto(proportions,
                                  TheoreticalSpectraIDs(current_chunk_ID),
                                  dec.probs, chunk_TICs[current_chunk_ID + 1])
    /\ vortex' = ScatterInto(vortex, ConfIDs, dec.trash,
                             chunk_TICs[current_chunk_ID + 1])
    /\ written' = written
          \cup Writes(current_chunk_ID, "proportions", ThrIDs, dec.probs, CurrentTIC)
          \cup Writes(current_chunk_ID, "noise", ConfIDs, dec.trash, CurrentTIC)
    /\ current_chunk_ID' = current_chunk_ID + 1
    /\ pc' = "deconv"
    /\ UNCHANGED <<inputs, error, i, filterVars, chunkVars, current_chunk,
                   splitVars, rerun, nsolves, dec, lp_calls, lp_consistent,
                   result, warned>>

\* np.isclose(sum(proportions) + sum(vortex), 1., atol=len(vortex)*1e-03)
SumsToOne == SumSeq(proportions) + SumSeq(vortex) = scale.exp

\* dec['noise_in_theoretical'] when no chunk was solved: dec is not bound
DecUnbound == noise \in InBoth /\ dec = NoDec

ReturnUnbound ==
    /\ pc = "deconv"
    /\ current_chunk_ID = Len(exp_conf_chunks)
    /\ DecUnbound
    /\ warned' = ~SumsToOne
    /\ error' = "UnboundLocalError"
    /\ pc' = "raised"
    /\ UNCHANGED <<inputs, i, filterVars, chunkVars, current_chunk, splitVars,
                   solveVars, vortex, proportions, result>>

Return ==
    /\ pc = "deconv"
    /\ current_chunk_ID = Len(exp_conf_chunks)
    /\ ~DecUnbound
    /\ warned' = ~SumsToOne
    /\ result' = IF noise \in InBoth
                 THEN [proportions |-> proportions, noise |-> vortex,
                       noise_in_theoretical |-> dec.noise_in_theoretical,
                       returned |-> TRUE]
                 ELSE [proportions |-> proportions, noise |-> vortex,
                       returned |-> TRUE]
    /\ pc' = "done"
    /\ UNCHANGED <<inputs, error, i, filterVars, chunkVars, current_chunk,
                   splitVars, solveVars, vortex, proportions>>

\* ---------------------------------------------------------------- specification
Next ==
    \/ Validate
    \/ Reject
    \/ FilterStep
    \/ SortEnvelopes
    \/ IndexErrorOnEmptyQuery
    \/ SkipFiltered
    \/ FirstPresent
    \/ ChunkStep
    \/ FinishChunks
    \/ SplitStep
    \/ FinishSplit
    \/ SkipChunk
    \/ PrepareChunk
    \/ Exhausted
    \/ SolveIndexError
    \/ SolveNonOptimal
    \/ SolveOptimal
    \/ ScatterKeyError
    \/ ScatterIndexError
    \/ Scatter
    \/ ReturnUnbound
    \/ Return

Spec == Init /\ [][Next]_vars

TypeOK ==
    /\ pc \in {"validate", "filter", "skip", "chunk", "split", "deconv",
               "solve", "scatter", "done", "raised"}
    /\ error \in {"none", "AssertionError", "ValueError", "IndexError", "RuntimeError",
                   "KeyError", "UnboundLocalError"}
    /\ noise \in NoiseModes \cup {Plain}

\* ---------------------------------------------------------------- properties
InFiltered(n) == \E j \in 1..Len(filtered) : filtered[j] = n

Fatal == pc = "raised" /\ error = "RuntimeError"

\* the filter loop has ended and the envelopes are sorted
FilterDone == pc = "skip"

\* the chunk sweep has ended and the last chunk is closed
ChunksDone == pc = "split"

\* the peak sweep has ended and the last list is stored
SplitDone == pc = "deconv"

\* places (chunk, position) at which peak index n is listed
Places(n) ==
    { cp \in (1..Len(exp_conf_chunks)) \X (1..Len(exp_confs)) :
        /\ cp[2] <= Len(exp_conf_chunks[cp[1]])
        /\ exp_conf_chunks[cp[1]][cp[2]] = n }

\* C1: after the peak-splitting sweep every experimental peak index is listed
\* exactly once in exactly one chunk, its mass inside that chunk's interval,
\* or it is listed in no chunk and the noise vector holds its full intensity.
C1_PeakPartition ==
    SplitDone =>
        \A n \in 0..(Len(exp_confs) - 1) :
            \/ /\ Cardinality(Places(n)) = 1
               /\ \A cp \in Places(n) :
                     /\ chunk_bounds[cp[1]][1] <= exp_confs[n + 1][1]
                     /\ exp_confs[n + 1][1] <= chunk_bounds[cp[1]][2]
            \/ /\ Places(n) = {}
               /\ vortex[n + 1] = exp_confs[n + 1][2]

C1_Witness ==
    /\ SplitDone
    /\ \E n \in 0..(Len(exp_confs) - 1) : Places(n) # {}
    /\ \E n \in 0..(Len(exp_confs) - 1) : Places(n) = {} /\ exp_confs[n + 1][2] > 0

\* C2: when estimate_proportions returns and every accepted LP result had
\* probs and trash summing to 1, the returned proportions and noise sum to 1.
C2_SumToOne ==
    (pc = "done" /\ lp_consistent) =>
        /\ SumSeq(result.proportions) + SumSeq(result.noise) = scale.exp
        /\ ~warned

C2_Witness ==
    /\ pc = "done" /\ lp_consistent
    /\ \E c \in lp_calls : chunk_TICs[c.chunk + 1] > 1
    /\ \E n \in 1..Len(result.proportions) : result.proportions[n] > 1

\* C3: after the chunk sweep the MTD-expanded envelope of every surviving
\* candidate lies inside the interval of its chunk and meets no other chunk.
C3_EnvelopeInChunk ==
    ChunksDone =>
        \A n \in 0..(Len(query) - 1) :
            ~InFiltered(n) =>
                LET lo == query[n + 1][1][1] - MTD
                    hi == query[n + 1][Len(query[n + 1])][1] + MTD
                    c == chunkIDs[n + 1] + 1
                IN /\ c \in 1..Len(chunk_bounds)
                   /\ chunk_bounds[c][1] <= lo /\ hi <= chunk_bounds[c][2]
                   /\ \A c2 \in 1..Len(chunk_bounds) :
                         c2 # c => (chunk_bounds[c2][2] < lo \/ hi < chunk_bounds[c2][1])

\* C4: in the chunk sweep the running upper bound is the upper bound of the
\* preceding candidate, and a surviving candidate shares the chunk of its
\* predecessor in sorted order exactly when its lower bound minus that upper
\* bound is at most 2*MTD; otherwise it gets the next chunk ID.
C4_MergeRule ==
    /\ (pc = "chunk" /\ i > first_present) => prev_mx = envelope_bounds[i][2]
    /\ ChunksDone =>
          \A p \in (first_present + 1)..(Len(envelope_bounds) - 1) :
              LET a == envelope_bounds[p]
                  b == envelope_bounds[p + 1]
              IN IF b[1] - a[2] <= 2 * MTD
                 THEN chunkIDs[b[3] + 1] = chunkIDs[a[3] + 1]
                 ELSE chunkIDs[b[3] + 1] = chunkIDs[a[3] + 1] + 1

C4_Witness ==
    /\ ChunksDone
    /\ \E p \in (first_present + 1)..(Len(envelope_bounds) - 1) :
          /\ envelope_bounds[p + 1][1] - envelope_bounds[p][2] > 2 * MTD
          /\ chunkIDs[envelope_bounds[p + 1][3] + 1] = 1
          /\ chunkIDs[envelope_bounds[p][3] + 1] = 0

\* C5: chunk_bounds is ascending and pairwise disjoint, no interval is
\* empty, and every chunk ID is the chunk ID of at least one candidate.
C5_ChunkBoundsDisjoint ==
    ChunksDone =>
        /\ \A c \in 1..Len(chunk_bounds) : chunk_bounds[c][1] <= chunk_bounds[c][2]
        /\ \A c \in 1..Len(chunk_bounds), c2 \in 1..Len(chunk_bounds) :
              c < c2 => chunk_bounds[c][2] < chunk_bounds[c2][1]
        /\ \A c \in 1..Len(chunk_bounds) :
              \E n \in 1..Len(chunkIDs) : chunkIDs[n] = c - 1

C5_Witness ==
    /\ ChunksDone
    /\ Len(chunk_bounds) >= 2
    /\ chunk_bounds[1][2] < chunk_bounds[2][1]

\* C6: after the chunk sweep every discarded candidate has chunk ID -1 and
\* every surviving candidate has a chunk ID >= 0.
C6_FilteredSentinel ==
    ChunksDone =>
        \A n \in 0..(Len(query) - 1) :
            IF InFiltered(n) THEN chunkIDs[n + 1] = -1 ELSE chunkIDs[n + 1] >= 0

\* C7: a discarded candidate is in no list of theoretical spectra passed to
\* the LP builder, no chunk interval is built from it, and its returned
\* proportion is 0.
C7_FilteredExcluded ==
    /\ \A c \in lp_calls : \A j \in 1..Len(c.thr) : ~InFiltered(c.thr[j])
    /\ ChunksDone =>
          \A c \in 1..Len(chunk_bounds) :
              \E n \in 0..(Len(query) - 1) :
                  /\ ~InFiltered(n)
                  /\ chunkIDs[n + 1] = c - 1
    /\ pc = "done" =>
          \A n \in 0..(Len(query) - 1) :
              InFiltered(n) => result.proportions[n + 1] = 0

\* C8: the pre-filter retains candidate n exactly when (MDC = 0 or the
\* experimental intensity within [lowest - MTD, highest + MTD] is >= MDC) and
\* (MMD = -1 or some experimental peak is within MMD of the modal mass); with
\* MDC = 0 and MMD = -1 nothing is discarded.
RECURSIVE IntensityOver(_)
IntensityOver(idx) ==
    IF idx = {} THEN 0
    ELSE LET n == CHOOSE m \in idx : TRUE
         IN exp_confs[n][2] + IntensityOver(idx \ {n})

C8_Keeps(n) ==
    LET s == query[n + 1]
        lowest == s[1][1]
        highest == s[Len(s)][1]
        tallest == CHOOSE j \in 1..Len(s) :
                       /\ \A l \in 1..Len(s) : s[l][2] <= s[j][2]
                       /\ \A l \in 1..(j - 1) : s[l][2] < s[j][2]
        inside == {m \in 1..Len(exp_confs) :
                     lowest - MTD <= exp_confs[m][1] /\ exp_confs[m][1] <= highest + MTD}
    IN /\ (MDC = 0 \/ IntensityOver(inside) >= MDC)
       /\ (MMD = -1 \/ \E m \in 1..Len(exp_confs) :
                           Abs(exp_confs[m][1] - s[tallest][1]) <= MMD)

C8_FilterRule ==
    FilterDone =>
        /\ \A n \in 0..(Len(query) - 1) :
              /\ InFiltered(n) <=> ~C8_Keeps(n)
              /\ ~InFiltered(n) <=>
                    \E p \in 1..Len(envelope_bounds) :
                        envelope_bounds[p] = <<query[n + 1][1][1],
                                               query[n + 1][Len(query[n + 1])][1], n>>
        /\ (MDC = 0 /\ MMD = -1) => filtered = <<>>

C8_Witness ==
    /\ FilterDone
    /\ \E n \in 0..(Len(query) - 1) : InFiltered(n) /\ MatchingMode(query[n + 1])
    /\ MDC > 0 /\ MMD >= 0

\* C9: the fatal RuntimeError is raised only after the first attempt and
\* max_reruns retries, i.e. after max_reruns + 1 solver invocations.
C9_RetriesPlusFirst ==
    Fatal => nsolves = max_reruns + 1

\* C10: once the retries of a chunk are exhausted the run stays in the fatal
\* error state: nothing is solved or written afterwards and no result is
\* returned.
C10_FatalAborts ==
    /\ [](error = "RuntimeError" => (pc = "raised" /\ ~result.returned))
    /\ [][error = "RuntimeError" =>
            UNCHANGED <<lp_calls, nsolves, current_chunk_ID, proportions, vortex, result>>]_vars

C10_Witness ==
    /\ Fatal
    /\ nsolves > 0
    /\ \E c \in (current_chunk_ID + 2)..Len(chunk_TICs) : chunk_TICs[c] > 0

\* the chunk sweep, the peak sweep and the chunk loop have all ended
Returned == pc = "done"

\* peak index n is listed in chunk c (1-based position in exp_conf_chunks)
ListedIn(n, c) == \E j \in 1..Len(exp_conf_chunks[c]) : exp_conf_chunks[c][j] = n

\* C11: a chunk whose total ion current is below the floor is never passed to
\* the LP; in the returned result the noise of each of its peaks is the
\* peak's original intensity and the proportions of its candidates are 0.
\* An ion current below the floor is one below 1/Units, i.e. below 1 here.
C11_BelowFloorSkipped ==
    /\ \A c \in lp_calls : chunk_TICs[c.chunk + 1] >= 1
    /\ Returned =>
          \A c \in 1..Len(exp_conf_chunks) :
              chunk_TICs[c] < 1 =>
                  /\ \A n \in 0..(Len(exp_confs) - 1) :
                        ListedIn(n, c) => result.noise[n + 1] = exp_confs[n + 1][2]
                  /\ \A n \in 0..(Len(query) - 1) :
                        chunkIDs[n + 1] = c - 1 => result.proportions[n + 1] = 0

C11_Witness ==
    /\ Returned
    /\ lp_calls # {}
    /\ \E c \in 1..Len(exp_conf_chunks) :
          /\ chunk_TICs[c] < 1
          /\ exp_conf_chunks[c] # <<>>
          /\ \E n \in 0..(Len(query) - 1) : chunkIDs[n + 1] = c - 1

\* peak index n has its mass outside every chunk interval
OutsideEveryChunk(n) ==
    \A c \in 1..Len(chunk_bounds) : ~InBound(chunk_bounds[c], exp_confs[n + 1][1])

\* C12: from the end of the peak sweep to the returned result, the noise of
\* every peak whose mass is outside every chunk interval is the peak's full
\* original intensity.
C12_OutsideNoiseKept ==
    /\ (SplitDone \/ pc = "scatter") =>
          \A n \in 0..(Len(exp_confs) - 1) :
              OutsideEveryChunk(n) => vortex[n + 1] = exp_confs[n + 1][2]
    /\ Returned =>
          \A n \in 0..(Len(exp_confs) - 1) :
              OutsideEveryChunk(n) => result.noise[n + 1] = exp_confs[n + 1][2]

C12_Witness ==
    /\ Returned
    /\ \E n \in 0..(Len(exp_confs) - 1) :
          OutsideEveryChunk(n) /\ exp_confs[n + 1][2] > 0
    /\ \E n \in 0..(Len(exp_confs) - 1) :
          ~OutsideEveryChunk(n) /\ exp_confs[n + 1][2] > 0 /\ result.noise[n + 1] > 0
    /\ lp_calls # {}

\* the input breaks one of the three rules for the experimental spectrum or
\* for some theoretical spectrum
InvalidInput ==
    \/ ~ExpNormalized \/ ~ExpMassesOK \/ ExpNegativeIntensity
    \/ \E n \in 1..Len(query) :
          \/ ~ThrNormalized(query[n]) \/ ~ThrMassesOK(query[n])
          \/ \E j \in 1..Len(query[n]) : query[n][j][2] < 0

\* C13: an input with an unnormalized spectrum, a negative mass or a negative
\* intensity (experimental or theoretical) is rejected with an error before
\* any filtering, chunking or solve.
C13_InvalidRejected ==
    InvalidInput =>
        /\ pc \in {"validate", "raised"}
        /\ pc = "raised" => error \in {"AssertionError", "ValueError"}
        /\ envelope_bounds = <<>> /\ chunk_bounds = <<>> /\ lp_calls = {}

\* dualdeconv2: the peaks of the chunk the returned trash values belong to,
\* in order (the axis points where exp_vec > 0)
NonzeroConfs(conf_IDs) ==
    SelectSeq(conf_IDs, LAMBDA n : exp_confs[n + 1][2] > 0)

\* the chunk loop has just scattered the result dec of chunk current_chunk_ID - 1
ChunkScattered ==
    /\ pc = "deconv"
    /\ current_chunk_ID > 0
    /\ chunk_TICs[current_chunk_ID] >= 1

\* C14: the result has one proportion per query spectrum and one noise entry
\* per experimental peak; after a chunk is scattered, each noise value of its
\* LP result, times the chunk's ion current, is in the slot of the peak it
\* was computed for, and each proportion in the slot of its candidate.
C14_ScatterAligned ==
    /\ Returned =>
          /\ Len(result.proportions) = Len(query)
          /\ Len(result.noise) = Len(exp_confs)
    /\ ChunkScattered =>
          LET tic == chunk_TICs[current_chunk_ID]
              ids == TheoreticalSpectraIDs(current_chunk_ID - 1)
              peaks == NonzeroConfs(exp_conf_chunks[current_chunk_ID])
          IN /\ \A j \in 1..Len(dec.trash) :
                    vortex[peaks[j] + 1] = dec.trash[j] * tic
             /\ \A j \in 1..Len(dec.probs) :
                    proportions[ids[j] + 1] = dec.probs[j] * tic

\* C15: a call of estimate_proportions2 on valid input, in any noise mode,
\* raises nothing but the RuntimeError of a chunk that was not solved to
\* optimality (in particular nothing while scattering), and its result has
\* one proportion per query spectrum, one noise entry per experimental peak
\* and, in the two theory-noise modes, the key noise_in_theoretical.
C15_Proportions2Returns ==
    noise \in NoiseModes =>
        /\ pc = "raised" => error = "RuntimeError"
        /\ Returned =>
              /\ Len(result.proportions) = Len(query)
              /\ Len(result.noise) = Len(exp_confs)
              /\ noise \in InBoth => "noise_in_theoretical" \in DOMAIN result

\* the run is the one of the entry point
IsScenario == exp_confs = ScenarioExp /\ query = ScenarioThr

\* C16: in the run of the entry point the fourth candidate (mass 20) is
\* discarded, has chunk ID -1 and proportion 0; the other three form the
\* chunks [-0.1, 1.4] (candidates 1 and 3) and [2.8, 4.4] (candidate 2); the
\* peak at mass 60 is in no chunk and its noise is its full intensity.
C16_Scenario ==
    IsScenario =>
        /\ FilterDone => filtered = <<3>>
        /\ ChunksDone =>
              /\ chunkIDs = <<0, 1, 0, -1>>
              /\ chunk_bounds = << <<-1, 14>>, <<28, 44>> >>
        /\ SplitDone =>
              /\ exp_conf_chunks = << <<0, 1>>, <<3, 4>> >>
              /\ OutsideEveryChunk(5)
        /\ pc # "raised" \/ error = "RuntimeError"
        /\ Returned =>
              /\ result.proportions[4] = 0
              /\ result.noise[6] = ScenarioExp[6][2]

C16_Witness ==
    /\ IsScenario
    /\ Returned
    /\ \E n \in 1..3 : result.proportions[n] > 0

\* vec is confs resampled onto axis: one value per axis point, the peak's
\* intensity at a peak mass and 0 elsewhere; reading vec at the peak masses
\* gives the intensities of confs back in order
C17_Resampled(confs, axis, vec) ==
    /\ Len(vec) = Len(axis)
    /\ \A j \in 1..Len(axis) :
          IF \E l \in 1..Len(confs) : confs[l][1] = axis[j]
          THEN \A l \in 1..Len(confs) : confs[l][1] = axis[j] => vec[j] = confs[l][2]
          ELSE vec[j] = 0
    /\ [l \in 1..Len(confs) |-> vec[CHOOSE j \in 1..Len(axis) : axis[j] = confs[l][1]]]
          = Intensities(confs)

\* C17: for the sorted peak lists and the sorted axes of every call of a
\* builder (the axis holds all masses of the list), intensity_generator
\* yields the list resampled onto the axis.
C17_GeneratorRoundTrip ==
    \A c \in lp_calls :
        /\ C17_Resampled(ChunkSp(c.confs), c.axis, c.exp_vec)
        /\ \A t \in 1..Len(c.thr) :
              C17_Resampled(query[c.thr[t] + 1], c.axis, c.thr_vecs[t])

C17_Witness ==
    \E c \in lp_calls :
        /\ \E j \in 1..Len(c.axis), l \in 1..Len(c.axis) :
              j < l /\ c.exp_vec[j] = 0 /\ c.exp_vec[l] > 0
                    /\ c.thr_vecs[1][j] > 0 /\ c.thr_vecs[1][l] = 0
        /\ Len(c.axis) > Len(c.confs)

\* C18: no index of the proportions array and no index of the noise array is
\* written while processing two different chunks, and the returned arrays
\* hold at every written index the value its one chunk wrote (so the result
\* does not depend on the order of the chunks).
C18_DisjointWrites ==
    /\ \A w1 \in written, w2 \in written :
          (w1.array = w2.array /\ w1.index = w2.index) => w1.chunk = w2.chunk
    /\ Returned =>
          \A w \in written :
              IF w.array = "proportions"
              THEN result.proportions[w.index + 1] = w.value
              ELSE result.noise[w.index + 1] = w.value

C18_Witness ==
    /\ Returned
    /\ \E w1 \in written, w2 \in written :
          /\ w1.chunk # w2.chunk
          /\ w1.array = "noise" /\ w2.array = "noise"
          /\ w1.value > 0 /\ w2.value > 0
    /\ \E w1 \in written, w2 \in written :
          /\ w1.chunk # w2.chunk
          /\ w1.array = "proportions" /\ w2.array = "proportions"

\* C19: the noise list of every optimal LP result, whichever of the four
\* builders produced it, has one value per peak of the chunk with intensity
\* > 0.
C19_NoiseListLength ==
    pc = "scatter" =>
        Len(Abyss(dec)) =
            Cardinality({j \in 1..Len(ConfIDs) : exp_confs[ConfIDs[j] + 1][2] > 0})

\* C20: the program of every builder call has, for each of the n points of
\* its axis, a variable of its own, paired with the point's resampled
\* experimental intensity in the objective and with its resampled theoretical
\* intensity (where positive) in each candidate constraint; the program has
\* at least these n variables.
C20_OneVariablePerAxisPoint ==
    \A c \in lp_calls :
        LET n == Len(c.axis)
        IN /\ c.nvars >= n
           /\ Len(c.objective) = n
           /\ \A j \in 1..n : c.objective[j] = <<c.exp_vec[j], j>>
           /\ \A t \in 1..Len(c.thr) :
                 \A j \in 1..n :
                     c.thr_vecs[t][j] > 0 =>
                         \E l \in 1..Len(c.constraints[t]) :
                             c.constraints[t][l] = <<c.thr_vecs[t][j], j>>

\* the positions of the list of names that hold the same name as position a
SameName(names, a) == {b \in 1..Len(names) : b # a /\ names[b] = names[a]}

\* C21 as stated: in dualdeconv4, for every axis length n >= 2, the two
\* trailing constraints are added under names the main loop has already used
\* for a g_ and a g_prime_ constraint, so the names of the model contain a
\* duplicate.
C21_TrailingNamesDuplicate ==
    \A c \in lp_calls :
        (c.builder = "dualdeconv4" /\ Len(c.axis) >= 2) =>
            LET m == Len(c.names)
            IN /\ \E b \in 1..(m - 2) : c.names[b] = c.names[m - 1]
               /\ \E b \in 1..(m - 2) : c.names[b] = c.names[m]

\* C21 amended: in dualdeconv4, for every axis length n >= 2, the two
\* trailing constraints are added under the names g_n and g_prime_n, which
\* the main loop over i in 0..n-2 (names g_1..g_(n-1), g_prime_1..
\* g_prime_(n-1)) has not used, so the constraint names of the model are
\* pairwise distinct.
C21_TrailingNamesFresh ==
    \A c \in lp_calls :
        (c.builder = "dualdeconv4" /\ Len(c.axis) >= 2) =>
            LET m == Len(c.names)
                n == Len(c.axis)
            IN /\ c.names[m - 1] = <<"g_%i", n>>
               /\ c.names[m] = <<"g_prime_%i", n>>
               /\ \A l \in 1..(n - 1) :
                     /\ \E b \in 1..(m - 2) : c.names[b] = <<"g_%i", l>>
                     /\ \E b \in 1..(m - 2) : c.names[b] = <<"g_prime_%i", l>>
               /\ \A a \in 1..m : SameName(c.names, a) = {}

C21_Witness ==
    \E c \in lp_calls :
        /\ c.builder = "dualdeconv4"
        /\ Len(c.axis) >= 2
        /\ Len(c.thr) >= 1
        /\ Len(c.names) = Len(c.thr) + 1 + 2 * (Len(c.axis) - 1)
                            + 2 * (Len(c.axis) - 2) + 2

\* the noise list without its last slot
PreviousSlots(abyss) == SubSeq(abyss, 1, Len(abyss) - 1)

\* the last slot of the experimental noise of d is 1 minus the sum of the
\* proportions and of the previous slots, and everything sums to 1
LastSlotIsRemainder(d) ==
    LET abyss == d.experimental_trash
    IN /\ Len(abyss) >= 1
       /\ abyss[Len(abyss)] =
             1 - SumSeq(d.probs) - SumSeq(PreviousSlots(abyss))
       /\ SumSeq(d.probs) + SumSeq(abyss) = 1

\* C22 as stated: in both theory-noise variants, dualdeconv3 and
\* dualdeconv4, the last slot of the returned experimental noise is 1 minus
\* the sum of all proportions and all previous noise slots, so that
\* sum(probs) + sum(experimental noise) = 1 for every solver output.
C22_LastSlotComputed ==
    (noise \in InBoth /\ "experimental_trash" \in DOMAIN dec) =>
        LastSlotIsRemainder(dec)

\* C22 amended: in the theory-noise variant C (dualdeconv3) the last slot of
\* the returned experimental noise is 1 minus the sum of all proportions and
\* all previous noise slots, so that in this variant sum(probs) +
\* sum(experimental noise) = 1 for every solver output.
C22_LastSlotComputedInC ==
    (noise = "in_both_alg1" /\ "experimental_trash" \in DOMAIN dec) =>
        LastSlotIsRemainder(dec)

C22_Witness ==
    /\ noise = "in_both_alg1"
    /\ pc = "scatter"
    /\ "experimental_trash" \in DOMAIN dec
    /\ Len(dec.experimental_trash) >= 2
    /\ dec.probs[1] = 1
    /\ dec.experimental_trash[1] = 1
    /\ dec.experimental_trash[Len(dec.experimental_trash)] = -1

\* the retry loop of the current chunk is running
InRetryLoop == pc = "solve"

\* the retry loop ends by accepting a result with optimal status
Accepts == pc' = "scatter" /\ dec'.status = Optimal /\ nsolves' = nsolves + 1

\* the retry loop ends by raising RuntimeError, without a solver invocation
RaisesRuntimeError ==
    pc' = "raised" /\ error' = "RuntimeError" /\ UNCHANGED <<nsolves, lp_calls, dec>>

====
